---- MODULE Spec2Model ----
(***************************************************************************)
(* Incremental completion reassembly of presto's AI client:                *)
(* Client.ProcessContent (the continuation loop), Client.MergeContinuation *)
(* with its three overlap strategies, and the completeness checks.         *)
(* Go strings are modelled as TLA+ strings (sequences of characters);      *)
(* every text of the model is ASCII, so a byte length is a Len.            *)
(***************************************************************************)
EXTENDS Integers, Sequences, FiniteSets, TLC

VARIABLES
    \* ---- one ProcessContent call (the completion driver) ----
    pc,               \* "send" | "await" | "done" | "error" | "idle"
    provider,         \* c.config.Provider
    req,              \* types.AIRequest: Mode, Content, Language
    attempt,          \* loop counter of ProcessContent
    fullContent,      \* strings.Builder fullContent
    totalTokens,      \* totalTokens
    lastFinishReason, \* lastFinishReason
    currentPrompt,    \* currentPrompt
    requests,         \* number of backend requests issued by this call
    allLength,        \* every result received so far carried a length-limit signal
    ret,              \* value returned by ProcessContent: [resp, err]
    \* ---- one MergeContinuation call on its own ----
    mstate,           \* "input" | "merged" | "idle"
    existing,         \* argument existing
    continuation,     \* argument continuation
    merged,           \* result of the call
    \* ---- one LooksReasonablyComplete call on its own ----
    ostate,           \* "input" | "judged" | "idle"
    oResponse,        \* argument response
    oOriginal,        \* argument original
    oLanguage,        \* argument language
    oVerdict,         \* result of the call
    \* ---- one BuildContinuationPrompt call on its own ----
    pstate,           \* "input" | "built" | "idle"
    pPartial,         \* argument partialContent
    pOriginal,        \* argument originalContent
    pLanguage,        \* req.Language
    pPrompt,          \* result of the call
    \* ---- the caller's cancellation request (ProcessContent has no input for it) ----
    cancelled,        \* the caller has asked to cancel the running call
    \* ---- one Processor.processTransform call: the transform workers ----
    jobs,             \* channel jobs: the files not yet taken by a worker
    results,          \* channel results
    allResults,       \* allResults, once processTransform has returned
    returned,         \* processTransform has returned
    wk,               \* per worker: position and locals of processFile
    spinner,          \* p.ui.spinner, shared by all workers
    written,          \* files for which handleOutput wrote the output
    crashed           \* an unrecovered panic has ended the process

driverVars == <<pc, provider, req, attempt, fullContent, totalTokens,
                lastFinishReason, currentPrompt, requests, allLength, ret>>
mergeVars == <<mstate, existing, continuation, merged>>
oracleVars == <<ostate, oResponse, oOriginal, oLanguage, oVerdict>>
promptVars == <<pstate, pPartial, pOriginal, pLanguage, pPrompt>>
\* everything but the state of a ProcessContent call
procVars == <<jobs, results, allResults, returned, wk, spinner, written, crashed>>
\* everything but the state of a processTransform call
outsideProc == <<driverVars, mergeVars, oracleVars, promptVars, cancelled>>
\* everything but the state of a ProcessContent call
outsideDriver == <<mergeVars, oracleVars, promptVars, cancelled, procVars>>
vars == <<driverVars, mergeVars, oracleVars, promptVars, cancelled, procVars>>

-----------------------------------------------------------------------------
(* Bounds of the model *)

\* number of lines of a generated text (existing / continuation)
MaxLines == 2
\* largest length of the texts LooksReasonablyComplete is called with
MaxTextLen == 12
\* largest number of lines of the texts BuildContinuationPrompt is called with
MaxPromptLines == 12
\* number of files processTransform is called with
NumFiles == 2
\* opts.MaxConcurrent, the number of transform workers
MaxConcurrent == 2
\* number of entries of LinePool used to generate texts
PoolSize == 5
\* number of entries of FragmentPool the backend chooses its responses from
NumFragments == 2
\* number of entries of OriginalPool (req.Content)
NumOriginals == 2
\* number of entries of LanguagePool (req.Language)
NumLanguages == 2
\* largest token count of one backend response
MaxTokens == 1

-----------------------------------------------------------------------------
(* Go standard library: package strings, built-in min *)

SetMin(S) == CHOOSE x \in S : \A y \in S : x <= y
SetMax(S) == CHOOSE x \in S : \A y \in S : x >= y

Char(s, i) == SubSeq(s, i, i)

\* unicode.IsSpace restricted to ASCII
IsSpace(ch) == ch \in {" ", "\t", "\n", "\r", "\f"}

TrimSpace(s) ==
    LET ns == {i \in 1..Len(s) : ~IsSpace(Char(s, i))}
    IN  IF ns = {} THEN "" ELSE SubSeq(s, SetMin(ns), SetMax(ns))

HasPrefix(s, p) == Len(p) <= Len(s) /\ SubSeq(s, 1, Len(p)) = p

HasSuffix(s, p) == Len(p) <= Len(s) /\ SubSeq(s, Len(s) - Len(p) + 1, Len(s)) = p

\* strings.Split(s, "\n"): always at least one element
RECURSIVE Split(_)
Split(s) ==
    LET nl == {i \in 1..Len(s) : Char(s, i) = "\n"}
    IN  IF nl = {} THEN <<s>>
        ELSE LET i == SetMin(nl)
             IN  <<SubSeq(s, 1, i - 1)>> \o Split(SubSeq(s, i + 1, Len(s)))

\* strings.Join(elems, sep)
RECURSIVE Join(_, _)
Join(elems, sep) ==
    IF Len(elems) = 0 THEN ""
    ELSE IF Len(elems) = 1 THEN elems[1]
    ELSE elems[1] \o sep \o Join(Tail(elems), sep)

\* strings.Fields(s): the maximal runs of non-space characters
RECURSIVE Fields(_)
Fields(s) ==
    LET ns == {i \in 1..Len(s) : ~IsSpace(Char(s, i))}
    IN  IF ns = {} THEN <<>>
        ELSE LET start == SetMin(ns)
                 sp    == {i \in start..Len(s) : IsSpace(Char(s, i))}
                 end   == IF sp = {} THEN Len(s) ELSE SetMin(sp) - 1
             IN  <<SubSeq(s, start, end)>> \o Fields(SubSeq(s, end + 1, Len(s)))

UpperLetters == "ABCDEFGHIJKLMNOPQRSTUVWXYZ"
LowerLetters == "abcdefghijklmnopqrstuvwxyz"

LowerChar(ch) ==
    LET idx == {i \in 1..Len(UpperLetters) : Char(UpperLetters, i) = ch}
    IN  IF idx = {} THEN ch ELSE Char(LowerLetters, SetMin(idx))

\* strings.ToLower(s)
RECURSIVE ToLower(_)
ToLower(s) ==
    IF s = "" THEN "" ELSE LowerChar(Char(s, 1)) \o ToLower(SubSeq(s, 2, Len(s)))

\* strings.Count(s, sub): non-overlapping occurrences, sub not empty
RECURSIVE Count(_, _)
Count(s, sub) ==
    LET at == {i \in 1..(Len(s) - Len(sub) + 1) : SubSeq(s, i, i + Len(sub) - 1) = sub}
    IN  IF sub = "" THEN Len(s) + 1
        ELSE IF at = {} THEN 0
        ELSE 1 + Count(SubSeq(s, SetMin(at) + Len(sub), Len(s)), sub)

\* strings.Contains(s, sub)
Contains(s, sub) ==
    \E i \in 1..(Len(s) - Len(sub) + 1) : SubSeq(s, i, i + Len(sub) - 1) = sub

\* func min(a, b, c int) int
min(a, b, c) ==
    IF a <= b /\ a <= c THEN a
    ELSE IF b <= c THEN b
    ELSE c

-----------------------------------------------------------------------------
(* Overlap matcher and fragment merger *)

\* Client.linesMatch
linesMatch(lines1, lines2) ==
    IF Len(lines1) # Len(lines2) THEN FALSE
    ELSE \A i \in 1..Len(lines1) : TrimSpace(lines1[i]) = TrimSpace(lines2[i])

\* Client.tryExactLineOverlap: "" means no exact overlap found.  The loop
\* runs overlap = 1, 2, ... and returns at the first overlap that matches.
tryExactLineOverlap(ex, cont) ==
    LET existingLines     == Split(ex)
        continuationLines == Split(cont)
        maxOverlapCheck   == min(Len(existingLines), Len(continuationLines), 5)
        matching == {overlap \in 1..maxOverlapCheck :
                        linesMatch(SubSeq(existingLines,
                                          Len(existingLines) - overlap + 1,
                                          Len(existingLines)),
                                   SubSeq(continuationLines, 1, overlap))}
    IN  IF matching = {} THEN ""
        ELSE LET overlap   == SetMin(matching)
                 remaining == SubSeq(continuationLines, overlap + 1,
                                     Len(continuationLines))
             IN  IF Len(remaining) > 0
                 THEN ex \o "\n" \o Join(remaining, "\n")
                 ELSE ex

\* the three cases of the inner loop body of findCompletionPoint, on the
\* trimmed lines
completes(existingLine, contLine) ==
    \/ Len(contLine) > Len(existingLine) /\ HasPrefix(contLine, existingLine)
    \/ /\ Len(existingLine) > 3
       /\ HasPrefix(contLine, SubSeq(existingLine, 1, Len(existingLine) - 1))
    \/ LET existingWords == Fields(existingLine)
           contWords     == Fields(contLine)
       IN  /\ Len(existingWords) > 0
           /\ Len(contWords) > 0
           /\ LET lastExistingWord == existingWords[Len(existingWords)]
                  firstContWord    == contWords[1]
              IN  /\ Len(lastExistingWord) >= 3
                  /\ Len(firstContWord) > Len(lastExistingWord)
                  /\ HasPrefix(firstContWord, lastExistingWord)

\* Client.findCompletionPoint: 0-based index into continuationHead, -1 if none
findCompletionPoint(existingTail, continuationHead) ==
    LET points == {contIdx \in 0..(Len(continuationHead) - 1) :
                     LET contLine == TrimSpace(continuationHead[contIdx + 1])
                     IN  /\ contLine # ""
                         /\ \E j \in 1..Len(existingTail) :
                               LET existingLine == TrimSpace(existingTail[j])
                               IN  /\ existingLine # ""
                                   /\ completes(existingLine, contLine)}
    IN  IF points = {} THEN -1 ELSE SetMin(points)

\* the completion point tryPartialCompletion finds when it removes
\* linesToRemove lines
completionPointFor(existingLines, continuationLines, linesToRemove) ==
    findCompletionPoint(
        SubSeq(existingLines, Len(existingLines) - linesToRemove + 1,
               Len(existingLines)),
        SubSeq(continuationLines, 1,
               min(linesToRemove + 2, Len(continuationLines), 20)))

\* the text tryPartialCompletion returns for linesToRemove and completionPoint
partialCompletionResult(existingLines, continuationLines, linesToRemove, completionPoint) ==
    LET truncatedExisting ==
            Join(SubSeq(existingLines, 1, Len(existingLines) - linesToRemove), "\n")
        remainingContinuation ==
            Join(SubSeq(continuationLines, completionPoint + 1,
                        Len(continuationLines)), "\n")
    IN  IF truncatedExisting = "" THEN remainingContinuation
        ELSE truncatedExisting \o "\n" \o remainingContinuation

\* Client.tryPartialCompletion: "" means no partial completion found.  The
\* loop runs linesToRemove = 1, 2, 3 and returns at the first one for which a
\* completion point exists.
tryPartialCompletion(ex, cont) ==
    LET existingLines     == Split(ex)
        continuationLines == Split(cont)
        maxLinesToCheck   == min(Len(existingLines), Len(continuationLines), 3)
        found == {n \in 1..maxLinesToCheck :
                     completionPointFor(existingLines, continuationLines, n) >= 0}
    IN  IF found = {} THEN ""
        ELSE partialCompletionResult(
                 existingLines, continuationLines, SetMin(found),
                 completionPointFor(existingLines, continuationLines, SetMin(found)))

\* number of leading positions i at which existingTail[i] and
\* continuationHead[startPos + i] are equal ignoring case (the inner loop of
\* findWordOverlap; startPos is 0-based)
RECURSIVE matchRun(_, _, _, _)
matchRun(existingTail, continuationHead, startPos, i) ==
    IF i < Len(existingTail) /\ startPos + i < Len(continuationHead)
       /\ ToLower(TrimSpace(existingTail[i + 1]))
            = ToLower(TrimSpace(continuationHead[startPos + i + 1]))
    THEN 1 + matchRun(existingTail, continuationHead, startPos, i + 1)
    ELSE 0

\* findWordOverlap with the threshold off by one (overlap > 3)
findWordOverlap_Mutant(existingTail, continuationHead) ==
    LET runs == {matchRun(existingTail, continuationHead, startPos, 0) :
                    startPos \in 0..(Len(continuationHead) - 3)}
        good == {o \in runs : o > 3}
    IN  IF good = {} THEN 0 ELSE SetMax(good)

\* Client.findWordOverlap
findWordOverlap(existingTail, continuationHead) ==
    LET runs == {matchRun(existingTail, continuationHead, startPos, 0) :
                    startPos \in 0..(Len(continuationHead) - 3)}
        good == {o \in runs : o >= 3}
    IN  IF good = {} THEN 0 ELSE SetMax(good)

\* the overlap tryWordOverlap finds when it checks wordsToCheck words
wordOverlapFor(existingWords, continuationWords, wordsToCheck) ==
    findWordOverlap(
        SubSeq(existingWords, Len(existingWords) - wordsToCheck + 1,
               Len(existingWords)),
        SubSeq(continuationWords, 1,
               min(wordsToCheck + 5, Len(continuationWords), 20)))

\* the text tryWordOverlap returns for an overlap of overlapLen words
wordOverlapResult(existingWords, cont, overlapLen) ==
    LET truncatedExisting ==
            Join(SubSeq(existingWords, 1, Len(existingWords) - overlapLen), " ")
    IN  IF truncatedExisting = "" THEN cont
        ELSE truncatedExisting \o " " \o cont

\* Client.tryWordOverlap: "" means no word overlap found.  The loop runs
\* wordsToCheck = 3, 4, ... and returns at the first one with an overlap.
tryWordOverlap(ex, cont) ==
    LET existingWords     == Fields(ex)
        continuationWords == Fields(cont)
        maxWordsToCheck   == min(Len(existingWords), Len(continuationWords), 20)
        found == {w \in 3..maxWordsToCheck :
                     wordOverlapFor(existingWords, continuationWords, w) > 0}
    IN  IF Len(existingWords) < 3 \/ Len(continuationWords) < 3 THEN ""
        ELSE IF found = {} THEN ""
        ELSE wordOverlapResult(
                 existingWords, cont,
                 wordOverlapFor(existingWords, continuationWords, SetMin(found)))

\* mergeTrimmed whose fallback forgets the separating line break
mergeTrimmed_Mutant(ex, cont, exact, partial) ==
    IF exact # "" THEN exact
    ELSE IF partial # "" THEN partial
    ELSE LET word == tryWordOverlap(ex, cont)
         IN  IF word # "" THEN word
             ELSE ex \o cont

\* the strategies of MergeContinuation in their order, on the trimmed
\* continuation
mergeTrimmed(ex, cont, exact, partial) ==
    IF exact # "" THEN exact
    ELSE IF partial # "" THEN partial
    ELSE LET word == tryWordOverlap(ex, cont)
         IN  IF word # "" THEN word
             ELSE ex \o "\n" \o cont

\* MergeContinuation without the early return for an empty continuation
MergeContinuation_Mutant(ex, rawContinuation) ==
    mergeTrimmed(ex, TrimSpace(rawContinuation),
                 tryExactLineOverlap(ex, TrimSpace(rawContinuation)),
                 tryPartialCompletion(ex, TrimSpace(rawContinuation)))

\* Client.MergeContinuation
MergeContinuation(ex, rawContinuation) ==
    LET cont == TrimSpace(rawContinuation)
    IN  IF cont = "" THEN ex
        ELSE mergeTrimmed(ex, cont, tryExactLineOverlap(ex, cont),
                          tryPartialCompletion(ex, cont))

-----------------------------------------------------------------------------
(* Completeness oracle *)

\* The backtick cannot be written in a TLA+ string; "~" stands for it
\* wherever the source has one.
Backtick == "~"
Fence == Backtick \o Backtick \o Backtick

\* one iteration of the loop of hasBalancedBraces at the 1-based index i
braceStep(content, i, st) ==
    LET r == Char(content, i)
    IN  IF ~st.inString /\ r \in {"\"", "'", Backtick}
        THEN [st EXCEPT !.inString = TRUE, !.stringChar = r]
        ELSE IF st.inString /\ r = st.stringChar
        THEN IF i > 1 /\ Char(content, i - 1) # "\\"
             THEN [st EXCEPT !.inString = FALSE]
             ELSE st
        ELSE IF st.inString THEN st
        ELSE IF r = "{" THEN [st EXCEPT !.braceCount = @ + 1]
        ELSE IF r = "}" THEN [st EXCEPT !.braceCount = @ - 1]
        ELSE IF r = "(" THEN [st EXCEPT !.parenCount = @ + 1]
        ELSE IF r = ")" THEN [st EXCEPT !.parenCount = @ - 1]
        ELSE IF r = "[" THEN [st EXCEPT !.bracketCount = @ + 1]
        ELSE IF r = "]" THEN [st EXCEPT !.bracketCount = @ - 1]
        ELSE st

RECURSIVE braceScan(_, _, _)
braceScan(content, i, st) ==
    IF i > Len(content) THEN st
    ELSE braceScan(content, i + 1, braceStep(content, i, st))

\* hasBalancedBraces that counts the braces only
hasBalancedBraces_Mutant(content) ==
    LET st == braceScan(content, 1,
                        [inString |-> FALSE, stringChar |-> "",
                         braceCount |-> 0, parenCount |-> 0, bracketCount |-> 0])
    IN  st.braceCount = 0

\* Client.hasBalancedBraces
hasBalancedBraces(content) ==
    LET st == braceScan(content, 1,
                        [inString |-> FALSE, stringChar |-> "",
                         braceCount |-> 0, parenCount |-> 0, bracketCount |-> 0])
    IN  st.braceCount = 0 /\ st.parenCount = 0 /\ st.bracketCount = 0

\* Client.hasBalancedTags
hasBalancedTags(content) == Count(content, "<") = Count(content, ">")

\* Client.hasValidPythonStructure
hasValidPythonStructure(content) ==
    LET lines    == Split(content)
        lastLine == TrimSpace(lines[Len(lines)])
    IN  IF Len(lines) = 0 THEN FALSE
        ELSE \A ending \in {":", "\\", ",", "(", "[", "{"} :
                 ~HasSuffix(lastLine, ending)

\* Client.hasAbruptEnding
hasAbruptEnding(content) ==
    LET c == TrimSpace(content)
    IN  IF Len(c) = 0 THEN TRUE
        ELSE Char(c, Len(c)) \in {",", "(", "+", "*", "/", "-", "=", "&", "|", "<"}

\* Client.hasBalancedStructure
hasBalancedStructure(content, language) ==
    IF language \in {"javascript", "typescript", "json", "go", "java", "c", "cpp"}
    THEN hasBalancedBraces(content)
    ELSE IF language \in {"html", "xml"} THEN hasBalancedTags(content)
    ELSE IF language = "python" THEN hasValidPythonStructure(content)
    ELSE ~hasAbruptEnding(content)

\* Client.LooksReasonablyComplete
LooksReasonablyComplete(response, original, language) ==
    IF Len(response) >= Len(original) THEN TRUE
    ELSE IF Len(response) >= (Len(original) * 9) \div 10
    THEN hasBalancedStructure(response, language)
    ELSE FALSE

\* wasResponseComplete that knows only the OpenAI length signal
wasResponseComplete_Mutant(finishReason) ==
    finishReason \notin {"length"}

\* Client.wasResponseComplete
wasResponseComplete(finishReason) ==
    finishReason \notin {"length", "max_tokens", "max_output_tokens"}

\* OpenAIResponse.IsComplete
OpenAIIsComplete(reason) == reason \in {"stop", "end_turn", ""}

\* AnthropicResponse.IsComplete
AnthropicIsComplete(reason) == reason \in {"end_turn", "stop_sequence", ""}

\* apiResp.IsComplete() on the response type the provider switch produces
IsComplete(prov, reason) ==
    IF prov = "anthropic" THEN AnthropicIsComplete(reason)
    ELSE OpenAIIsComplete(reason)

-----------------------------------------------------------------------------
(* Post-processing of a response, prompts *)

\* languageAliases of isCompatibleLanguage
languageAliases(language) ==
    CASE language = "go"         -> {"go", "golang"}
      [] language = "javascript" -> {"js", "javascript", "jsx"}
      [] language = "typescript" -> {"ts", "typescript", "tsx"}
      [] language = "python"     -> {"py", "python", "python3"}
      [] language = "rust"       -> {"rs", "rust"}
      [] language = "java"       -> {"java"}
      [] language = "cpp"        -> {"cpp", "c++", "cxx"}
      [] language = "c"          -> {"c"}
      [] language = "csharp"     -> {"cs", "csharp", "c#"}
      [] language = "php"        -> {"php"}
      [] language = "ruby"       -> {"rb", "ruby"}
      [] language = "yaml"       -> {"yml", "yaml"}
      [] language = "json"       -> {"json"}
      [] language = "xml"        -> {"xml"}
      [] language = "html"       -> {"html", "htm"}
      [] language = "css"        -> {"css"}
      [] language = "sql"        -> {"sql"}
      [] language = "shell"      -> {"sh", "bash", "shell", "zsh"}
      [] OTHER                   -> {}

\* Client.isCompatibleLanguage
isCompatibleLanguage(declared, fileLanguage) ==
    LET d == ToLower(declared)
    IN  d \in languageAliases(fileLanguage) \/ d = fileLanguage

\* Client.hasInnerCodeBlocks
hasInnerCodeBlocks(content) == Count(content, Fence) >= 2

\* Client.looksLikeWrapper
looksLikeWrapper(full, innerContent, language) ==
    LET fullLines  == Len(Split(full))
        innerLines == Len(Split(innerContent))
    IN  IF fullLines - innerLines <= 2 THEN TRUE
        ELSE IF language = "go"
        THEN \/ HasPrefix(TrimSpace(innerContent), "package ")
             \/ Contains(innerContent, "func ")
             \/ Contains(innerContent, "import ")
        ELSE IF language \in {"javascript", "typescript"}
        THEN \/ Contains(innerContent, "function ")
             \/ Contains(innerContent, "const ")
             \/ Contains(innerContent, "import ")
             \/ Contains(innerContent, "export ")
        ELSE IF language = "python"
        THEN \/ Contains(innerContent, "def ")
             \/ Contains(innerContent, "class ")
             \/ Contains(innerContent, "import ")
        ELSE fullLines - innerLines <= 2

\* Client.removeOuterCodeBlock
removeOuterCodeBlock(rawContent, language) ==
    LET content == TrimSpace(rawContent)
        lines   == Split(content)
    IN  IF content = "" THEN content
        ELSE IF ~HasPrefix(content, Fence) \/ ~HasSuffix(content, Fence) THEN content
        ELSE IF Len(lines) < 3 THEN content
        ELSE
          LET firstLine    == TrimSpace(lines[1])
              lastLine     == TrimSpace(lines[Len(lines)])
              declaredLang == TrimSpace(SubSeq(firstLine, Len(Fence) + 1, Len(firstLine)))
              innerContent == Join(SubSeq(lines, 2, Len(lines) - 1), "\n")
          IN  IF ~HasPrefix(firstLine, Fence) THEN content
              ELSE IF lastLine # Fence THEN content
              ELSE IF declaredLang # "" /\ ~isCompatibleLanguage(declaredLang, language)
              THEN content
              ELSE IF hasInnerCodeBlocks(innerContent)
              THEN IF looksLikeWrapper(content, innerContent, language)
                   THEN innerContent
                   ELSE content
              ELSE innerContent

\* Client.postProcessContent
postProcessContent(content, language) ==
    IF language = "markdown" THEN content
    ELSE removeOuterCodeBlock(content, language)

Digits == "0123456789"

\* fmt.Sprintf("%d", n)
RECURSIVE FormatNat(_)
FormatNat(n) ==
    IF n < 10 THEN Char(Digits, n + 1)
    ELSE FormatNat(n \div 10) \o Char(Digits, (n % 10) + 1)

FormatInt(n) == IF n < 0 THEN "-" \o FormatNat(0 - n) ELSE FormatNat(n)

\* Client.getOutputInstructions
getOutputInstructions(language) ==
    "=== OUTPUT INSTRUCTIONS ===\n"
    \o (IF language = "markdown"
        THEN "Return the content as properly formatted Markdown.\n"
             \o "Preserve all existing code blocks and markdown formatting.\n"
        ELSE "CRITICAL: Return ONLY the raw file content in plain text format.\n"
             \o "Do NOT wrap the output in markdown code blocks (" \o Fence \o ").\n"
             \o "Do NOT include any explanatory text before or after the code.\n"
             \o "Do NOT format as markdown - return the exact file content.\n"
             \o "The output should be valid " \o language
             \o " code that can be saved directly to a file.\n")
    \o "Do not include any commentary, explanations, or wrapper text.\n"
    \o "Start your response immediately with the file content."

\* req.Prompt; the request carries no file name and no context files
UserPrompt == "Rewrite the file."

\* Client.buildPrompt for a request without FileName and without context files
buildPrompt(r) ==
    UserPrompt
    \o (IF r.Mode = "transform" /\ r.Content # ""
        THEN "\n\nContent to transform:\n\n" \o r.Content ELSE "")
    \o (IF r.Mode = "transform"
        THEN "\n\n" \o getOutputInstructions(r.Language) ELSE "")

\* contextLines of BuildContinuationPrompt
contextLines == 10

\* Client.BuildContinuationPrompt
BuildContinuationPrompt(partialContent, originalContent, r) ==
    LET lines == Split(partialContent)
    IN  "CONTINUATION REQUEST:\n"
        \o "The previous response was incomplete due to length limits. Please continue from where you left off.\n\n"
        \o "IMPORTANT INSTRUCTIONS:\n"
        \o "- Continue the file content exactly from where it was cut off\n"
        \o "- Return ONLY the remaining content - no explanations or repetition\n"
        \o "- Do not repeat any content that was already provided\n"
        \o "- Maintain the same formatting and style\n"
        \o "- Complete the entire file\n\n"
        \o (IF originalContent # ""
            THEN "ORIGINAL FILE SIZE: " \o FormatInt(Len(originalContent)) \o " characters\n"
                 \o "PARTIAL CONTENT SIZE: " \o FormatInt(Len(partialContent)) \o " characters\n"
                 \o "ESTIMATED REMAINING: "
                 \o FormatInt(Len(originalContent) - Len(partialContent))
                 \o " characters\n\n"
            ELSE "")
        \o (IF Len(lines) > contextLines
            THEN "LAST FEW LINES OF PARTIAL CONTENT (for context):\n"
                 \o "...\n"
                 \o Join(SubSeq(lines, Len(lines) - contextLines + 1, Len(lines)), "\n")
                 \o "\n\n"
            ELSE "")
        \o "Please continue with the remaining content to complete the file.\n"
        \o getOutputInstructions(r.Language)

-----------------------------------------------------------------------------
(* Completion driver: one call of Client.ProcessContent *)

\* const MAX_CONTINUATIONS of ProcessContent
MAX_CONTINUATIONS == 5

Providers == {"openai", "anthropic"}
Modes == {"transform", "generate"}

\* finish_reason / stop_reason values a backend reports
FinishReasons == {"stop", "", "length", "max_tokens", "stop_sequence", "content_filter"}

\* req.Language
LanguagePool == <<"go", "text", "python", "html", "markdown">>
Languages == {LanguagePool[i] : i \in 1..NumLanguages}

\* req.Content, the file being transformed
OriginalPool == <<"a b c\nx a b c {", "abc", "", "{a}\n{b}">>
Originals == {OriginalPool[i] : i \in 1..NumOriginals}

\* texts a backend response carries
FragmentPool == <<"a b c", "~~~go\nx a b c {\n~~~", "", "abc", "  ab", "}">>
Fragments == {FragmentPool[i] : i \in 1..NumFragments}

\* the finish signals that report a length limit
LengthLimitSignals == {"length", "max_tokens", "max_output_tokens"}

\* no value returned yet: (nil, nil)
NoReturn == [resp |-> <<>>, err |-> ""]

\* ui.spinner == nil
NoSpinner == [set |-> FALSE, owner |-> "", label |-> ""]

\* no processTransform call is made, and no cancellation is requested
ProcIdle ==
    /\ cancelled = FALSE
    /\ jobs = <<>>
    /\ results = <<>>
    /\ allResults = <<>>
    /\ returned = FALSE
    /\ wk = <<>>
    /\ spinner = NoSpinner
    /\ written = {}
    /\ crashed = FALSE

\* no MergeContinuation call on its own is made
MergeIdle ==
    mstate = "idle" /\ existing = "" /\ continuation = "" /\ merged = ""

\* no LooksReasonablyComplete call on its own is made
OracleIdle ==
    /\ ostate = "idle"
    /\ oResponse = ""
    /\ oOriginal = ""
    /\ oLanguage = ""
    /\ oVerdict = FALSE

\* no BuildContinuationPrompt call on its own is made
PromptIdle ==
    /\ pstate = "idle"
    /\ pPartial = ""
    /\ pOriginal = ""
    /\ pLanguage = ""
    /\ pPrompt = ""

\* the loop condition off by one
forCondition_Mutant(a) == a <= MAX_CONTINUATIONS

\* the condition of the for loop of ProcessContent
forCondition(a) == a < MAX_CONTINUATIONS

\* the break conditions without the generate-mode break
loopBreaks_Mutant(complete, mode, a, full, original, language) ==
    \/ complete
    \/ a > 0 /\ LooksReasonablyComplete(full, original, language)

\* the break conditions with the completeness heuristic consulted on every
\* round, the first included
loopBreaks_MutantFirstRound(complete, mode, a, full, original, language) ==
    \/ complete
    \/ mode = "generate"
    \/ LooksReasonablyComplete(full, original, language)

\* the three break conditions of the loop body, after the merge of round
\* attempt + 1
loopBreaks(complete, mode, a, full, original, language) ==
    \/ complete
    \/ mode = "generate"
    \/ a > 0 /\ LooksReasonablyComplete(full, original, language)

\* the types.AIResponse built at the end of ProcessContent
AIResponse(full, tokens, reason) ==
    [Content      |-> full,
     TokensUsed   |-> tokens,
     FinishReason |-> reason,
     Truncated    |-> ~wasResponseComplete(reason)]

Init ==
    /\ pc = "send"
    /\ provider \in Providers
    /\ req \in [Mode : Modes, Content : Originals, Language : Languages]
    /\ attempt = 0
    /\ fullContent = ""
    /\ totalTokens = 0
    /\ lastFinishReason = ""
    /\ currentPrompt = buildPrompt(req)
    /\ requests = 0
    /\ allLength = TRUE
    /\ ret = NoReturn
    /\ MergeIdle
    /\ OracleIdle
    /\ PromptIdle
    /\ ProcIdle

\* sendOpenAIRequest / sendAnthropicRequest is called with currentPrompt
SendRequest ==
    /\ pc = "send"
    /\ requests' = requests + 1
    /\ pc' = "await"
    /\ UNCHANGED <<provider, req, attempt, fullContent, totalTokens,
                   lastFinishReason, currentPrompt, allLength, ret, outsideDriver>>

\* the error return that hands the partial text back with the error
BackendError_Mutant ==
    /\ pc = "await"
    /\ ret' = [resp |-> <<[Content |-> fullContent, TokensUsed |-> totalTokens,
                          FinishReason |-> lastFinishReason, Truncated |-> TRUE]>>,
               err |-> "request failed"]
    /\ pc' = "error"
    /\ UNCHANGED <<provider, req, attempt, fullContent, totalTokens,
                   lastFinishReason, currentPrompt, requests, allLength, outsideDriver>>

\* the request fails (transport error, non-200 status, undecodable body):
\* ProcessContent returns nil, err
BackendError ==
    /\ pc = "await"
    /\ ret' = [resp |-> <<>>, err |-> "request failed"]
    /\ pc' = "error"
    /\ UNCHANGED <<provider, req, attempt, fullContent, totalTokens,
                   lastFinishReason, currentPrompt, requests, allLength, outsideDriver>>

\* the request returns a response: the rest of the loop body, and the return
\* when the loop ends
\* (the token count and the finish reason are taken from the response before
\* the merge; the assignments do not depend on each other)
BackendResult(rawContent, tokens, reason) ==
    /\ pc = "await"
    /\ totalTokens' = totalTokens + tokens
    /\ lastFinishReason' = reason
    /\ allLength' = (allLength /\ reason \in LengthLimitSignals)
    /\ LET content == IF req.Mode = "transform"
                      THEN postProcessContent(rawContent, req.Language)
                      ELSE rawContent
       IN  fullContent' = IF attempt = 0 THEN content
                          ELSE MergeContinuation(fullContent, content)
    /\ IF loopBreaks(IsComplete(provider, reason), req.Mode, attempt,
                     fullContent', req.Content, req.Language)
       THEN /\ pc' = "done"
            /\ ret' = [resp |-> <<AIResponse(fullContent', totalTokens', reason)>>,
                       err |-> ""]
            /\ UNCHANGED <<attempt, currentPrompt>>
       ELSE /\ currentPrompt' = BuildContinuationPrompt(fullContent', req.Content, req)
            /\ attempt' = attempt + 1
            /\ IF forCondition(attempt + 1)
               THEN pc' = "send" /\ ret' = ret
               ELSE /\ pc' = "done"
                    /\ ret' = [resp |-> <<AIResponse(fullContent', totalTokens', reason)>>,
                               err |-> ""]
    /\ UNCHANGED <<provider, req, requests, outsideDriver>>

Next ==
    \/ SendRequest
    \/ BackendError
    \/ \E rawContent \in Fragments, tokens \in 0..MaxTokens, reason \in FinishReasons :
          BackendResult(rawContent, tokens, reason)

Spec == Init /\ [][Next]_vars

\* every http.Client has a Timeout, so a request that was sent returns
FairSpec == Spec /\ WF_vars(Next)

\* the caller asks to cancel the running call.  ProcessContent takes no
\* context, channel or flag and the requests are built with http.NewRequest,
\* so nothing in the call reads the request to cancel.
Cancel ==
    /\ pc \in {"send", "await"}
    /\ ~cancelled
    /\ cancelled' = TRUE
    /\ UNCHANGED <<driverVars, mergeVars, oracleVars, promptVars, procVars>>

NextCancel ==
    \/ Cancel
    \/ SendRequest
    \/ BackendError
    \/ \E rawContent \in Fragments, tokens \in 0..MaxTokens, reason \in FinishReasons :
          BackendResult(rawContent, tokens, reason)

\* a ProcessContent call whose caller may ask to cancel it
SpecCancel == Init /\ [][NextCancel]_vars

-----------------------------------------------------------------------------
(* Inputs of the merger *)

\* lines from which the generated texts are built
LinePool ==
    <<"a b c", "  ab", "abc", " \t", "x a b c", "", "A", "abcd e", "a b">>

RECURSIVE TextsOfLines(_)
TextsOfLines(n) ==
    IF n = 1 THEN {LinePool[i] : i \in 1..PoolSize}
    ELSE {t \o "\n" \o LinePool[i] : t \in TextsOfLines(n - 1), i \in 1..PoolSize}

GeneratedTexts == UNION {TextsOfLines(n) : n \in 1..MaxLines}

\* the worked examples of the merger's contract
ExamplePairs ==
    { <<"A\nB\nC", "B\nC\nD">>,
      <<"function foo() {\n  console.log('Hel", "console.log('Hello');\n}">>,
      <<"the quick brown", "quick brown fox jumps">>,
      <<"see the quick brown", "the quick brown fox jumps">>,
      <<"end.", "Unrelated start.">>,
      <<"A\nA", "A\nA\nB">>,
      <<"end.", "">>,
      <<"", "a b c">> }

MergeInputs == (GeneratedTexts \X GeneratedTexts) \cup ExamplePairs

-----------------------------------------------------------------------------
(* One MergeContinuation call *)

DriverIdle ==
    /\ pc = "idle"
    /\ provider = "openai"
    /\ req = [Mode |-> "transform", Content |-> "", Language |-> "text"]
    /\ attempt = 0
    /\ fullContent = ""
    /\ totalTokens = 0
    /\ lastFinishReason = ""
    /\ currentPrompt = ""
    /\ requests = 0
    /\ allLength = TRUE
    /\ ret = NoReturn

MergeInit ==
    /\ DriverIdle
    /\ OracleIdle
    /\ PromptIdle
    /\ ProcIdle
    /\ mstate = "input"
    /\ \E p \in MergeInputs : existing = p[1] /\ continuation = p[2]
    /\ merged = ""

Merge ==
    /\ mstate = "input"
    /\ merged' = MergeContinuation(existing, continuation)
    /\ mstate' = "merged"
    /\ UNCHANGED <<existing, continuation, driverVars, oracleVars, promptVars, cancelled, procVars>>

MergeNext == Merge

SpecMerge == MergeInit /\ [][MergeNext]_vars

-----------------------------------------------------------------------------
(* One LooksReasonablyComplete call *)

\* ch repeated n times
RECURSIVE Repeat(_, _)
Repeat(ch, n) == IF n <= 0 THEN "" ELSE ch \o Repeat(ch, n - 1)

\* the ends of the responses: balanced and unbalanced braces, parentheses,
\* a brace in a string literal, escaped quotes outside and inside a string
\* literal, abrupt endings, abrupt endings before trailing line breaks
ResponseCores ==
    {"", "{ a(); }", "{ a();", "{ a( }", "[", "'{' a", "\"}\" {}", "a,", "<a", "a:",
     "\\\"{", "'\\'{'}", "a:\n", "a\n", "a,\n\n"}

\* responses of every length up to MaxTextLen: a core after a filler
OracleResponses ==
    {Repeat("a", m - Len(c)) \o c : c \in ResponseCores, m \in 0..MaxTextLen}

\* originals of every length up to MaxTextLen
OracleOriginals == {Repeat("x", n) : n \in 0..MaxTextLen}

\* one language of each class of hasBalancedStructure
OracleLanguages == {"go", "html", "python", "text"}

OracleInit ==
    /\ DriverIdle
    /\ MergeIdle
    /\ PromptIdle
    /\ ProcIdle
    /\ ostate = "input"
    /\ oResponse \in OracleResponses
    /\ oOriginal \in OracleOriginals
    /\ oLanguage \in OracleLanguages
    /\ oVerdict = FALSE

Judge ==
    /\ ostate = "input"
    /\ oVerdict' = LooksReasonablyComplete(oResponse, oOriginal, oLanguage)
    /\ ostate' = "judged"
    /\ UNCHANGED <<oResponse, oOriginal, oLanguage, driverVars, mergeVars, promptVars, cancelled, procVars>>

OracleNext == Judge

SpecOracle == OracleInit /\ [][OracleNext]_vars

-----------------------------------------------------------------------------
(* One BuildContinuationPrompt call *)

\* the text of n lines "L1", "L2", ...
RECURSIVE NumberedLines(_)
NumberedLines(n) ==
    IF n = 0 THEN ""
    ELSE IF n = 1 THEN "L1"
    ELSE NumberedLines(n - 1) \o "\n" \o "L" \o FormatNat(n)

\* merged texts of every number of lines, without and with a last line break
PromptPartials ==
    {NumberedLines(n) : n \in 0..MaxPromptLines}
        \cup {NumberedLines(n) \o "\n" : n \in 1..MaxPromptLines}

PromptOriginals == {"", Repeat("x", 40)}

PromptLanguages == {"go", "markdown"}

PromptInit ==
    /\ DriverIdle
    /\ MergeIdle
    /\ OracleIdle
    /\ ProcIdle
    /\ pstate = "input"
    /\ pPartial \in PromptPartials
    /\ pOriginal \in PromptOriginals
    /\ pLanguage \in PromptLanguages
    /\ pPrompt = ""

Build ==
    /\ pstate = "input"
    /\ pPrompt' = BuildContinuationPrompt(pPartial, pOriginal, [Mode |-> "transform", Content |-> pOriginal, Language |-> pLanguage])
    /\ pstate' = "built"
    /\ UNCHANGED <<pPartial, pOriginal, pLanguage, driverVars, mergeVars, oracleVars, cancelled, procVars>>

PromptNext == Build

SpecPrompt == PromptInit /\ [][PromptNext]_vars

-----------------------------------------------------------------------------
(* The transform workers: Processor.processTransform, transformWorker,    *)
(* processFile and processWithContinuationAndUI, with the UI they share    *)

\* the files of one processTransform call
Files == {"f" \o FormatNat(i) : i \in 1..NumFiles}

\* the goroutines started by processTransform: opts.MaxConcurrent of them
Workers == DOMAIN wk

\* the content read from every file, and its language
FileContent == "abc"
FileLanguage == "text"

\* what ProcessContent returns to the processor: contents, finish signals and
\* token counts of the responses
ProcContents == {"a,", "abc"}
ProcReasons == {"stop", "length"}
ProcTokens == {1}
ProcResponses ==
    {AIResponse(c, t, r) : c \in ProcContents, t \in ProcTokens, r \in ProcReasons}

\* AIResponse.IsComplete of package types
AIResponseIsComplete(r) ==
    ~r.Truncated /\ r.FinishReason \in {"stop", "end_turn", ""}

\* the numbers of backend requests one ProcessContent call can have issued
\* when it returns resp: a call in transform mode returns after its first
\* request only with a finish signal that ends its loop
RoundsOf(resp) ==
    IF resp.FinishReason \in LengthLimitSignals
    THEN 2..MAX_CONTINUATIONS
    ELSE 1..MAX_CONTINUATIONS

\* the request counter of a file stops at the first value above
\* MAX_CONTINUATIONS
RequestCap == MAX_CONTINUATIONS + 1

\* AIResponse.NeedsContinuation of package types
NeedsContinuation(r) ==
    r.Truncated \/ r.FinishReason = "length" \/ r.FinishReason = "max_tokens"

\* a worker that waits for a job.  reqs counts the backend requests issued for
\* the worker's file (up to RequestCap) and spent sums the tokens the backend
\* reported for them; the code keeps neither.
IdleWorker ==
    [pc |-> "idle", file |-> "", attempt |-> 0, full |-> "", total |-> 0,
     used |-> 0, err |-> "", op |-> "", step |-> 0, next |-> "",
     reqs |-> 0, spent |-> 0]

\* a ProcessContent call for the worker's file has issued n requests that
\* consumed tokens tokens
counted(w, n, tokens) ==
    [w EXCEPT !.reqs = IF @ + n < RequestCap THEN @ + n ELSE RequestCap,
              !.spent = @ + tokens]

\* the worker calls a method of p.ui that works on ui.spinner: StartSpinner
\* (op "start"), StopSpinner (op "stop") or UpdateSpinner (op "update"), and
\* goes on at next when the method returns.  The steps of a method are its
\* statements: 1 the test ui.spinner != nil, 2 the use of ui.spinner in the
\* body of the if, 3 the assignment to ui.spinner.
CallUI(w, method, after) == [w EXCEPT !.pc = "ui", !.op = method, !.step = 1, !.next = after]

\* the method of p.ui returns
ReturnUI(w) == [w EXCEPT !.pc = w.next, !.op = "", !.step = 0, !.next = ""]

ProcInit ==
    /\ DriverIdle
    /\ MergeIdle
    /\ OracleIdle
    /\ PromptIdle
    /\ cancelled = FALSE
    /\ jobs = [i \in 1..NumFiles |-> "f" \o FormatNat(i)]
    /\ results = <<>>
    /\ allResults = <<>>
    /\ returned = FALSE
    /\ \E n \in 0..MaxConcurrent : wk = [w \in 1..n |-> IdleWorker]
    /\ spinner = NoSpinner
    /\ written = {}
    /\ crashed = FALSE

\* transformWorker receives a file from jobs; processFile starts with
\* p.ui.FileProcessing, which calls StartSpinner
TakeJob(w) ==
    /\ ~crashed
    /\ wk[w].pc = "idle"
    /\ jobs # <<>>
    /\ wk' = [wk EXCEPT ![w] = CallUI([IdleWorker EXCEPT !.file = Head(jobs)], "start", "read")]
    /\ jobs' = Tail(jobs)
    /\ UNCHANGED <<results, allResults, returned, spinner, written, crashed, outsideProc>>

\* jobs is closed and empty: the worker's range loop ends, wg.Done()
WorkerExit(w) ==
    /\ ~crashed
    /\ wk[w].pc = "idle"
    /\ jobs = <<>>
    /\ wk' = [wk EXCEPT ![w].pc = "exited"]
    /\ UNCHANGED <<jobs, results, allResults, returned, spinner, written, crashed,
                   outsideProc>>

\* the test ui.spinner != nil of StartSpinner, StopSpinner and UpdateSpinner
SpinnerCheck(w) ==
    /\ ~crashed
    /\ wk[w].pc = "ui"
    /\ wk[w].step = 1
    /\ wk' = [wk EXCEPT ![w] =
                IF spinner.set THEN [@ EXCEPT !.step = 2]
                ELSE IF @.op = "start" THEN [@ EXCEPT !.step = 3]
                ELSE ReturnUI(@)]
    /\ UNCHANGED <<jobs, results, allResults, returned, spinner, written, crashed,
                   outsideProc>>

\* ui.spinner.Stop() of StartSpinner and StopSpinner.  When another worker
\* has set ui.spinner to nil since the test, the call either uses the pointer
\* loaded for the test (this step) or loads nil (SpinnerNilDereference).
SpinnerStop(w) ==
    /\ ~crashed
    /\ wk[w].pc = "ui"
    /\ wk[w].op \in {"start", "stop"}
    /\ wk[w].step = 2
    /\ wk' = [wk EXCEPT ![w].step = 3]
    /\ UNCHANGED <<jobs, results, allResults, returned, spinner, written, crashed,
                   outsideProc>>

\* ui.spinner.Suffix = ... of UpdateSpinner, on the spinner ui.spinner points
\* to now (or on the one loaded for the test when ui.spinner is nil now)
SpinnerSetSuffix(w) ==
    /\ ~crashed
    /\ wk[w].pc = "ui"
    /\ wk[w].op = "update"
    /\ wk[w].step = 2
    /\ spinner' = IF spinner.set THEN [spinner EXCEPT !.label = wk[w].file] ELSE spinner
    /\ wk' = [wk EXCEPT ![w] = ReturnUI(@)]
    /\ UNCHANGED <<jobs, results, allResults, returned, written, crashed, outsideProc>>

\* the body of the if reads ui.spinner again and finds nil: the method call or
\* the field assignment on a nil *spinner.Spinner panics, and the panic of a
\* goroutine ends the process
SpinnerNilDereference(w) ==
    /\ ~crashed
    /\ wk[w].pc = "ui"
    /\ wk[w].step = 2
    /\ ~spinner.set
    /\ crashed' = TRUE
    /\ UNCHANGED <<jobs, results, allResults, returned, wk, spinner, written,
                   outsideProc>>

\* ui.spinner = spinner.New(...) of StartSpinner, and Start()
SpinnerAssign(w) ==
    /\ ~crashed
    /\ wk[w].pc = "ui"
    /\ wk[w].op = "start"
    /\ wk[w].step = 3
    /\ spinner' = [set |-> TRUE, owner |-> wk[w].file, label |-> wk[w].file]
    /\ wk' = [wk EXCEPT ![w] = ReturnUI(@)]
    /\ UNCHANGED <<jobs, results, allResults, returned, written, crashed, outsideProc>>

\* ui.spinner = nil of StopSpinner
SpinnerClear(w) ==
    /\ ~crashed
    /\ wk[w].pc = "ui"
    /\ wk[w].op = "stop"
    /\ wk[w].step = 3
    /\ spinner' = NoSpinner
    /\ wk' = [wk EXCEPT ![w] = ReturnUI(@)]
    /\ UNCHANGED <<jobs, results, allResults, returned, written, crashed, outsideProc>>

\* os.ReadFile(file.Path) of processFile
ReadFile(w, ok) ==
    /\ ~crashed
    /\ wk[w].pc = "read"
    /\ wk' = [wk EXCEPT ![w] =
                IF ok THEN [@ EXCEPT !.pc = "call"]
                ELSE [@ EXCEPT !.pc = "send", !.err = "failed to read file"]]
    /\ UNCHANGED <<jobs, results, allResults, returned, spinner, written, crashed,
                   outsideProc>>

\* the ProcessContent call of processWithContinuationAndUI fails: the loop
\* returns the error and processFile calls p.ui.FileError
CallFails(w, n) ==
    /\ ~crashed
    /\ wk[w].pc = "call"
    /\ wk' = [wk EXCEPT ![w] =
                CallUI([counted(@, n, 0) EXCEPT !.err = "AI processing failed"], "stop", "send")]
    /\ UNCHANGED <<jobs, results, allResults, returned, spinner, written, crashed,
                   outsideProc>>

\* the locals of processWithContinuationAndUI after the response resp has been
\* added to totalTokens and merged into fullContent
afterResponse(w, resp) ==
    [w EXCEPT !.total = @ + resp.TokensUsed,
              !.full = IF w.attempt = 0 THEN resp.Content
                       ELSE MergeContinuation(w.full, resp.Content)]

\* the break conditions of the loop of processWithContinuationAndUI (the mode
\* of processTransform is transform)
procLoopBreaks(w, resp) ==
    \/ AIResponseIsComplete(resp)
    \/ w.attempt > 0 /\ LooksReasonablyComplete(w.full, FileContent, FileLanguage)

\* the worker after the response resp of a round: the rest of the loop body,
\* the loop condition and, for a next round, p.ui.FileContinuation; after the
\* loop processFile sets result.AITokensUsed to totalTokens
afterRound(w, resp, n) ==
    LET r == afterResponse(counted(w, n, resp.TokensUsed), resp)
    IN  IF procLoopBreaks(r, resp)
        THEN [r EXCEPT !.pc = "call2", !.used = r.total]
        ELSE IF r.attempt + 1 < MAX_CONTINUATIONS
        THEN CallUI([r EXCEPT !.attempt = r.attempt + 1], "update", "call")
        ELSE [r EXCEPT !.pc = "call2", !.attempt = r.attempt + 1, !.used = r.total]

\* the ProcessContent call of processWithContinuationAndUI returns resp
CallReturns(w, resp, n) ==
    /\ ~crashed
    /\ wk[w].pc = "call"
    /\ wk' = [wk EXCEPT ![w] = afterRound(wk[w], resp, n)]
    /\ UNCHANGED <<jobs, results, allResults, returned, spinner, written, crashed,
                   outsideProc>>

\* the second ProcessContent call, of processFile itself, fails
SecondCallFails(w, n) ==
    /\ ~crashed
    /\ wk[w].pc = "call2"
    /\ wk' = [wk EXCEPT ![w] =
                [counted(@, n, 0) EXCEPT !.pc = "send", !.err = "AI processing failed"]]
    /\ UNCHANGED <<jobs, results, allResults, returned, spinner, written, crashed,
                   outsideProc>>

\* the second ProcessContent call returns resp: result.AITokensUsed is set to
\* its token count and its content is handed to handleOutput
SecondCallReturns(w, resp, n) ==
    /\ ~crashed
    /\ wk[w].pc = "call2"
    /\ wk' = [wk EXCEPT ![w] =
                [counted(@, n, resp.TokensUsed) EXCEPT !.pc = "write",
                                                       !.used = resp.TokensUsed,
                                                       !.full = resp.Content]]
    /\ UNCHANGED <<jobs, results, allResults, returned, spinner, written, crashed,
                   outsideProc>>

\* handleOutput: the output is written and processFile calls
\* p.ui.FileSuccess, or the write fails
HandleOutput(w, ok) ==
    /\ ~crashed
    /\ wk[w].pc = "write"
    /\ wk' = [wk EXCEPT ![w] =
                IF ok THEN CallUI(@, "stop", "send")
                ELSE [@ EXCEPT !.pc = "send", !.err = "failed to write output"]]
    /\ written' = IF ok THEN written \cup {wk[w].file} ELSE written
    /\ UNCHANGED <<jobs, results, allResults, returned, spinner, crashed, outsideProc>>

\* processFile returns and transformWorker sends the result
SendResult(w) ==
    /\ ~crashed
    /\ wk[w].pc = "send"
    /\ results' = Append(results, [InputFile    |-> wk[w].file,
                                   Error        |-> wk[w].err,
                                   Success      |-> wk[w].err = "",
                                   AITokensUsed |-> wk[w].used])
    /\ wk' = [wk EXCEPT ![w] = IdleWorker]
    /\ UNCHANGED <<jobs, allResults, returned, spinner, written, crashed, outsideProc>>

\* every worker has called wg.Done(): results is closed, the range loop of
\* processTransform has collected every result and processTransform returns
CollectResults ==
    /\ ~crashed
    /\ ~returned
    /\ \A w \in Workers : wk[w].pc = "exited"
    /\ allResults' = results
    /\ returned' = TRUE
    /\ UNCHANGED <<jobs, results, wk, spinner, written, crashed, outsideProc>>

ProcNext ==
    \/ \E w \in Workers : TakeJob(w)
    \/ \E w \in Workers : WorkerExit(w)
    \/ \E w \in Workers : SpinnerCheck(w)
    \/ \E w \in Workers : SpinnerStop(w)
    \/ \E w \in Workers : SpinnerSetSuffix(w)
    \/ \E w \in Workers : SpinnerNilDereference(w)
    \/ \E w \in Workers : SpinnerAssign(w)
    \/ \E w \in Workers : SpinnerClear(w)
    \/ \E w \in Workers, ok \in BOOLEAN : ReadFile(w, ok)
    \/ \E w \in Workers, n \in 1..MAX_CONTINUATIONS : CallFails(w, n)
    \/ \E w \in Workers, resp \in ProcResponses : \E n \in RoundsOf(resp) :
          CallReturns(w, resp, n)
    \/ \E w \in Workers, n \in 1..MAX_CONTINUATIONS : SecondCallFails(w, n)
    \/ \E w \in Workers, resp \in ProcResponses : \E n \in RoundsOf(resp) :
          SecondCallReturns(w, resp, n)
    \/ \E w \in Workers, ok \in BOOLEAN : HandleOutput(w, ok)
    \/ \E w \in Workers : SendResult(w)
    \/ CollectResults

SpecProcessor == ProcInit /\ [][ProcNext]_vars

-----------------------------------------------------------------------------
(* Properties of the completion driver *)

Returned == pc = "done"
Outcome == ret.resp[1]

\* C1 as stated: in transform mode, when every backend result reports a
\* length-limit finish signal, ProcessContent performs exactly 5 rounds and
\* returns an outcome with truncated = true.
C1_ExactlyFiveRounds ==
    (Returned /\ req.Mode = "transform" /\ allLength)
        => (requests = 5 /\ Outcome.Truncated)

\* C1 amended: in transform mode, when every backend result reports a
\* length-limit finish signal, ProcessContent performs at least 2 and at most
\* 5 rounds, fewer than 5 only when LooksReasonablyComplete accepts the merged
\* text after the last round performed, and the outcome has truncated = true.
C1_BoundedRoundsTruncated ==
    (Returned /\ req.Mode = "transform" /\ allLength)
        => /\ Outcome.Truncated
           /\ requests \in 2..5
           /\ requests < 5 =>
                 LooksReasonablyComplete(Outcome.Content, req.Content, req.Language)

C1_Witness ==
    Returned /\ req.Mode = "transform" /\ allLength /\ requests = 5
    /\ Outcome.Truncated

\* C2: whatever the backend returns (any finish signals, any fragments, an
\* error at any round), a ProcessContent call never issues more than 5
\* backend requests and eventually returns (an outcome or an error).
C2_TerminatesWithinBudget ==
    [](requests <= 5) /\ <>(pc \in {"done", "error"})

C2_Witness == Returned /\ requests = 5 /\ attempt = 5

\* C3: when a backend call returns an error, ProcessContent returns that
\* error and no outcome, the accumulated text is left as it was (nothing of
\* the failed round is merged), and after the error return no further request
\* is issued and nothing is returned later.
C3_AbortOnBackendError ==
    [][/\ (pc = "await" /\ pc' = "error")
            => /\ ret'.resp = <<>>
               /\ ret'.err # ""
               /\ fullContent' = fullContent
               /\ requests' = requests
       /\ pc = "error" => (pc' = "error" /\ requests' = requests /\ ret' = ret)]_vars

C3_Witness ==
    pc = "error" /\ requests = 2 /\ fullContent # "" /\ ret.resp = <<>>
    /\ ret.err # ""

\* C4: in generate mode ProcessContent issues exactly one backend request and
\* returns after the first result, whatever its finish signal.
C4_GenerateSingleShot ==
    req.Mode = "generate"
        => /\ requests <= 1
           /\ pc \in {"done", "error"} => requests = 1
           /\ requests = 1 => pc \in {"await", "done", "error"}
           /\ Returned => attempt = 0

C4_Witness ==
    Returned /\ req.Mode = "generate" /\ requests = 1
    /\ Outcome.FinishReason = "length"

-----------------------------------------------------------------------------
(* Properties of the fragment merger *)

Merged == mstate = "merged"

\* C5: for every accumulated text a and fragment f the merged text is at
\* least as long as a.
C5_LengthNeverDecreases ==
    Merged => Len(merged) >= Len(existing)

\* the last k lines of a are, verbatim, the first k lines of f
VerbatimOverlap(a, f, k) ==
    /\ k <= Len(Split(a))
    /\ k <= Len(Split(f))
    /\ SubSeq(Split(a), Len(Split(a)) - k + 1, Len(Split(a)))
         = SubSeq(Split(f), 1, k)

\* C6: when the last k lines (k in 1..5) of the accumulated text are repeated
\* verbatim as the first k lines of a (trimmed, non-empty) fragment, the
\* merged text is the accumulated text followed by the remaining lines of the
\* fragment, so the repeated lines appear once; in particular
\* merge("A\nB\nC", "B\nC\nD") = "A\nB\nC\nD".
C6_NoDuplicationOnExactOverlap ==
    Merged =>
      /\ (existing = "A\nB\nC" /\ continuation = "B\nC\nD")
            => merged = "A\nB\nC\nD"
      /\ (continuation # "" /\ continuation = TrimSpace(continuation))
            => \A k \in 1..5 :
                  VerbatimOverlap(existing, continuation, k)
                     => merged = Join(Split(existing)
                                        \o SubSeq(Split(continuation), k + 1,
                                                  Len(Split(continuation))),
                                      "\n")

\* C7: merge("function foo() {\n  console.log('Hel",
\* "console.log('Hello');\n}") = "function foo() {\n  console.log('Hello');\n}".
C7_PartialCompletionRepair ==
    (Merged /\ existing = "function foo() {\n  console.log('Hel"
            /\ continuation = "console.log('Hello');\n}")
        => merged = "function foo() {\n  console.log('Hello');\n}"

\* C8 as stated: merge("the quick brown", "quick brown fox jumps")
\* = "the quick brown fox jumps".
C8_TwoWordOverlapMerged ==
    (Merged /\ existing = "the quick brown"
            /\ continuation = "quick brown fox jumps")
        => merged = "the quick brown fox jumps"

\* C8 amended: the word-level strategy needs three shared words.
\* merge("the quick brown", "quick brown fox jumps") shares two and is the
\* concatenation "the quick brown\nquick brown fox jumps";
\* merge("see the quick brown", "the quick brown fox jumps") shares three and
\* is "see the quick brown fox jumps", the shared words appearing once.
C8_WordLevelFallback ==
    Merged =>
      /\ (existing = "the quick brown" /\ continuation = "quick brown fox jumps")
            => merged = "the quick brown\nquick brown fox jumps"
      /\ (existing = "see the quick brown"
          /\ continuation = "the quick brown fox jumps")
            => merged = "see the quick brown fox jumps"

C8_Witness ==
    Merged /\ existing = "see the quick brown"
    /\ continuation = "the quick brown fox jumps"
    /\ merged = "see the quick brown fox jumps"

\* C9: for a fragment that is not empty after trimming, whenever none of the
\* three overlap strategies matches, the merged text is the accumulated text,
\* a line break, and the trimmed fragment; in particular
\* merge("end.", "Unrelated start.") = "end.\nUnrelated start.".
C9_NoOverlapConcatenation ==
    Merged =>
      /\ (existing = "end." /\ continuation = "Unrelated start.")
            => merged = "end.\nUnrelated start."
      /\ (/\ TrimSpace(continuation) # ""
          /\ tryExactLineOverlap(existing, TrimSpace(continuation)) = ""
          /\ tryPartialCompletion(existing, TrimSpace(continuation)) = ""
          /\ tryWordOverlap(existing, TrimSpace(continuation)) = "")
            => merged = existing \o "\n" \o TrimSpace(continuation)

C9_Witness ==
    Merged /\ existing = "end." /\ continuation = "Unrelated start."
    /\ merged = "end.\nUnrelated start."

\* C10: a fragment that is empty or consists only of whitespace leaves the
\* accumulated text unchanged.
C10_EmptyFragmentIsIdentity ==
    (Merged /\ \A i \in 1..Len(continuation) :
                   Char(continuation, i) \in {" ", "\t", "\n", "\r"})
        => merged = existing

C10_Witness ==
    Merged /\ continuation = " \t\n \t" /\ existing = "a b c"
    /\ merged = "a b c"

\* the strategy tryWordOverlap removes this many words from the end of a
WordsRemoved(a, f) ==
    LET existingWords     == Fields(a)
        continuationWords == Fields(f)
        found == {w \in 3..min(Len(existingWords), Len(continuationWords), 20) :
                     wordOverlapFor(existingWords, continuationWords, w) > 0}
    IN  IF found = {} THEN 0
        ELSE wordOverlapFor(existingWords, continuationWords, SetMin(found))

\* the strategy tryPartialCompletion removes this many lines from the end of a
LinesRemoved(a, f) ==
    LET found == {n \in 1..min(Len(Split(a)), Len(Split(f)), 3) :
                     completionPointFor(Split(a), Split(f), n) >= 0}
    IN  IF found = {} THEN 0 ELSE SetMin(found)

\* t begins with a prefix of a that holds exactly the first n words of a
KeepsWords(t, a, n) ==
    \E k \in 0..Len(a) :
        /\ Fields(SubSeq(a, 1, k)) = SubSeq(Fields(a), 1, n)
        /\ HasPrefix(t, SubSeq(a, 1, k))

\* C11: a merge changes the accumulated text a only by removing its
\* overlapping/truncated tail: the merged text begins, character for
\* character, with the part of a before the removed tail.  After an exact line
\* overlap or no overlap that part is a itself, after a partial completion it
\* is a without its removed last lines, after a word-level overlap it is a up
\* to the last word that is not removed (line breaks and spacing included).
C11_UntouchedPrefixPreserved ==
    (Merged /\ TrimSpace(continuation) # "") =>
      LET f == TrimSpace(continuation)
          n == LinesRemoved(existing, f)
          w == WordsRemoved(existing, f)
      IN  IF tryExactLineOverlap(existing, f) # "" THEN HasPrefix(merged, existing)
          ELSE IF tryPartialCompletion(existing, f) # ""
          THEN HasPrefix(merged, Join(SubSeq(Split(existing), 1,
                                             Len(Split(existing)) - n), "\n"))
          ELSE IF tryWordOverlap(existing, f) # ""
          THEN KeepsWords(merged, existing, Len(Fields(existing)) - w)
          ELSE HasPrefix(merged, existing)

\* the numbers k of lines (at most 5) for which the last k lines of a equal,
\* whitespace-trimmed, the first k lines of f
TrimmedOverlaps(a, f) ==
    {k \in 1..min(Len(Split(a)), Len(Split(f)), 5) :
        linesMatch(SubSeq(Split(a), Len(Split(a)) - k + 1, Len(Split(a))),
                   SubSeq(Split(f), 1, k))}

\* C12: exact line overlap takes the longest match: when one or more k in
\* 1..5 are such that the last k lines of the buffer equal (trimmed) the first
\* k lines of the fragment, the merged text is the buffer followed by the
\* lines of the fragment after the first k for the largest such k; in
\* particular merge("A\nA", "A\nA\nB") = "A\nA\nB".
C12_LongestExactOverlapWins ==
    (Merged /\ TrimSpace(continuation) # "") =>
      LET f  == TrimSpace(continuation)
          ks == TrimmedOverlaps(existing, f)
      IN  /\ (existing = "A\nA" /\ continuation = "A\nA\nB") => merged = "A\nA\nB"
          /\ ks # {} =>
               merged = Join(Split(existing)
                               \o SubSeq(Split(f), SetMax(ks) + 1, Len(Split(f))),
                             "\n")

-----------------------------------------------------------------------------
(* Properties of the outcome and of the completeness verdicts *)

\* the finish signals with which a backend reports that the model stopped by
\* itself (finish_reason "stop" of the OpenAI API, stop_reason "end_turn" and
\* "stop_sequence" of the Anthropic API)
NaturalStopSignals == {"stop", "end_turn", "stop_sequence"}

\* C13: the outcome ProcessContent returns has truncated = true if and only if
\* the finish signal of the last result is a length-limit signal or the call
\* used all 5 rounds without a natural stop; in particular a call that leaves
\* the loop because the round budget is exhausted returns truncated = true.
C13_TruncatedIffLengthOrExhausted ==
    Returned =>
      /\ Outcome.Truncated <=>
           \/ Outcome.FinishReason \in LengthLimitSignals
           \/ /\ requests = MAX_CONTINUATIONS
              /\ Outcome.FinishReason \notin NaturalStopSignals \cup {""}
      /\ attempt = MAX_CONTINUATIONS => Outcome.Truncated

\* C14: a backend result is judged complete exactly when its finish signal is
\* a natural stop or is absent (empty), for the OpenAI-style and for the
\* Anthropic-style backend alike; a result judged complete ends the loop, and
\* a result with a length-limit signal is judged not complete.
C14_CompleteIffNaturalStopOrAbsent ==
    (requests > 0 /\ pc \in {"send", "done"}) =>
      /\ IsComplete(provider, lastFinishReason)
           <=> lastFinishReason \in NaturalStopSignals \cup {""}
      /\ lastFinishReason \in NaturalStopSignals \cup {""} => Returned
      /\ lastFinishReason \in LengthLimitSignals
           => ~IsComplete(provider, lastFinishReason)

-----------------------------------------------------------------------------
(* Properties of the completeness oracle *)

Judged == ostate = "judged"

\* C15: LooksReasonablyComplete(merged, original, class) is true exactly when
\* len(merged) >= len(original), or 10 * len(merged) >= 9 * len(original) and
\* the structural check of the class passes; below 90% of the original's
\* length it is false, for every pair of lengths.
C15_NinetyPercentThreshold ==
    Judged =>
      /\ oVerdict <=>
           \/ Len(oResponse) >= Len(oOriginal)
           \/ /\ 10 * Len(oResponse) >= 9 * Len(oOriginal)
              /\ hasBalancedStructure(oResponse, oLanguage)
      /\ 10 * Len(oResponse) < 9 * Len(oOriginal) => ~oVerdict

\* the case of C16: a brace-delimited class, merged length at least 90% of
\* but less than the original's length
BraceClassNearComplete ==
    /\ Judged
    /\ oLanguage = "go"
    /\ 10 * Len(oResponse) >= 9 * Len(oOriginal)
    /\ Len(oResponse) < Len(oOriginal)

\* C16 as stated: in that case the text is accepted when its braces balance
\* and rejected when they do not.
C16_AcceptedIffBracesBalance ==
    BraceClassNearComplete =>
        (oVerdict <=> Count(oResponse, "{") = Count(oResponse, "}"))

\* C16 amended: in that case a text without quote characters is accepted
\* exactly when its braces, its parentheses and its square brackets each
\* balance ("a{ a(); }" is accepted, "aaa{ a();" and "aaa{ a( }" are
\* rejected); characters inside a quoted string literal are not counted
\* ("aaaa'{' a" is accepted).
C16_AcceptedIffAllDelimitersBalance ==
    BraceClassNearComplete =>
      /\ (\A q \in {"\"", "'", Backtick} : ~Contains(oResponse, q))
           => (oVerdict <=> /\ Count(oResponse, "{") = Count(oResponse, "}")
                            /\ Count(oResponse, "(") = Count(oResponse, ")")
                            /\ Count(oResponse, "[") = Count(oResponse, "]"))
      /\ oResponse = "a{ a(); }" => oVerdict
      /\ oResponse = "aaa{ a();" => ~oVerdict
      /\ oResponse = "aaa{ a( }" => ~oVerdict
      /\ oResponse = "aaaa'{' a" => oVerdict

C16_Witness ==
    /\ BraceClassNearComplete
    /\ oResponse = "aaa{ a( }"
    /\ Len(oOriginal) = 10
    /\ ~oVerdict

-----------------------------------------------------------------------------
(* Properties of the continuation prompt *)

Built == pstate = "built"

\* the last n lines of t (all of t when it has fewer)
TrailingLines(t, n) ==
    LET lines == Split(t)
    IN  Join(SubSeq(lines, SetMax({1, Len(lines) - n + 1}), Len(lines)), "\n")

\* C17: every continuation prompt contains the trailing lines of the merged
\* text so far (its last 10 lines, or all of it when it has fewer), for a
\* merged text of any number of lines.
C17_PromptCarriesTrailingLines ==
    Built => Contains(pPrompt, TrailingLines(pPartial, contextLines))

-----------------------------------------------------------------------------
(* Properties of the concurrent operations *)

\* C18: the operations that run concurrently on the transform workers (one
\* per file) share no mutable state: a step of the operation on a file
\* changes ui.spinner only when it is nil or was set by that operation, and
\* an operation that finds ui.spinner set finds the spinner it has set itself;
\* so no operation observes or clears state set by another.
C18_NoSharedMutableState ==
    [][\A w \in Workers :
          wk'[w] # wk[w] =>
            /\ spinner' # spinner
                 => (~spinner.set \/ spinner.owner = wk[w].file)
            /\ (wk[w].pc = "ui" /\ wk[w].step = 1 /\ spinner.set)
                 => spinner.owner = wk[w].file]_vars

\* a backend error has ended the processing of file f
BackendFailed(f) ==
    \/ \E w \in Workers : wk[w].file = f /\ wk[w].err = "AI processing failed"
    \/ \E i \in 1..Len(results) :
          results[i].InputFile = f /\ results[i].Error = "AI processing failed"

\* the results reported for file f
ResultsFor(rs, f) == {i \in 1..Len(rs) : rs[i].InputFile = f}

\* C19: a backend error while one file is processed is fatal for that file
\* only: the result of that file carries the error and nothing is written for
\* it, and every other file is still processed and reported with its own
\* result (the process does not end while a file has no result, and
\* processTransform returns one result for each file).
C19_BackendErrorFatalForThatFileOnly ==
    \A f \in Files :
        BackendFailed(f) =>
          /\ f \notin written
          /\ \A i \in ResultsFor(results, f) :
                results[i].Error # "" /\ ~results[i].Success
          /\ ~(crashed /\ \E g \in Files : ResultsFor(results, g) = {})
          /\ returned => \A g \in Files : Cardinality(ResultsFor(allResults, g)) = 1

\* C20: the driver accepts a cancellation signal: once cancellation has been
\* raised, also while a backend call is in flight, the result of that call is
\* never merged into the accumulated text, no further request is issued and
\* no outcome is returned.
C20_CancellationAbortsRound ==
    [][cancelled => /\ fullContent' = fullContent
                    /\ requests' = requests
                    /\ pc' # "done"]_vars

-----------------------------------------------------------------------------
(* Properties settled on the driver, the merger and the processor *)

\* C21: after the result of round r (r = 1..5, the number of requests issued
\* so far) the driver goes on to a continuation request if and only if the
\* response is not complete (apiResp.IsComplete() is false), the mode is
\* transform, r < 5, and it is not the case that r > 1 and
\* LooksReasonablyComplete holds for the merged text; in particular
\* LooksReasonablyComplete never ends the call on the first round.
C21_ContinuationIff ==
    [][(pc = "await" /\ pc' # "error") =>
          ((pc' = "send") <=>
             /\ ~IsComplete(provider, lastFinishReason')
             /\ req.Mode = "transform"
             /\ requests < MAX_CONTINUATIONS
             /\ ~(requests > 1 /\ LooksReasonablyComplete(fullContent', req.Content, req.Language)))]_vars

\* the first fragment is at least as long as the original and passes
\* LooksReasonablyComplete, and the driver continues after round 1
C21_Witness ==
    /\ pc = "send"
    /\ requests = 1
    /\ req.Mode = "transform"
    /\ Len(fullContent) >= Len(req.Content)
    /\ LooksReasonablyComplete(fullContent, req.Content, req.Language)

\* C22: processing one file in transform mode runs one reassembly: over the
\* whole of processFile (processWithContinuationAndUI and every ProcessContent
\* call it leads to) at most MAX_CONTINUATIONS = 5 backend requests are issued
\* for the file.
C22_AtMostFiveRequestsPerFile ==
    \A w \in Workers : wk[w].reqs <= MAX_CONTINUATIONS

\* C25: for a successfully processed file, ProcessingResult.AITokensUsed
\* equals the sum of the tokens consumed by every backend request that was
\* made for the file.
C25_TokensUsedIsSumOverRequests ==
    \A w \in Workers :
        (wk[w].pc = "send" /\ wk[w].err = "") => wk[w].used = wk[w].spent

\* C28: processTransform terminates and returns exactly one ProcessingResult
\* for each input file, for every MaxConcurrent >= 0: the process does not end
\* before processTransform returns, and what it returns holds one result for
\* every file.
C28_OneResultPerFile ==
    /\ ~crashed
    /\ returned => \A f \in Files : Cardinality(ResultsFor(allResults, f)) = 1

\* C29: for every AIResponse exactly one of IsComplete() and
\* NeedsContinuation() is true; here for every response that ProcessContent
\* returns to the per-file loop, which stops on IsComplete().
C29_CompleteXorNeedsContinuation ==
    pc = "done" =>
        (AIResponseIsComplete(ret.resp[1]) # NeedsContinuation(ret.resp[1]))

\* C30: the ESTIMATED REMAINING size (original length minus merged length)
\* written into a continuation prompt that ProcessContent sends is never
\* negative, in every round in which a continuation prompt is built.
C30_EstimatedRemainingNotNegative ==
    (pc = "send" /\ attempt > 0) =>
        ~Contains(currentPrompt, "ESTIMATED REMAINING: -")

\* the words of ws in lower case
LowerWords(ws) == [i \in 1..Len(ws) |-> ToLower(ws[i])]

\* MergeContinuation has merged with the word-level strategy
WordLevelMatched ==
    /\ Merged
    /\ TrimSpace(continuation) # ""
    /\ tryExactLineOverlap(existing, TrimSpace(continuation)) = ""
    /\ tryPartialCompletion(existing, TrimSpace(continuation)) = ""
    /\ tryWordOverlap(existing, TrimSpace(continuation)) # ""

\* C23: when the word-level strategy matches, the words removed from the end
\* of the accumulated text are exactly a run of at least 3 words that equals,
\* case-insensitively, the first words of the fragment; so the merged word
\* sequence is the words of the accumulated text before that run followed by
\* the words of the fragment: the overlapping words appear once and no other
\* word is dropped or duplicated.
C23_WordOverlapRemovesExactlyTheOverlap ==
    WordLevelMatched =>
      LET ew == Fields(existing)
          cw == Fields(TrimSpace(continuation))
      IN  \E k \in 3..min(Len(ew), Len(cw), Len(ew)) :
            /\ LowerWords(SubSeq(ew, Len(ew) - k + 1, Len(ew)))
                 = LowerWords(SubSeq(cw, 1, k))
            /\ Fields(merged) = SubSeq(ew, 1, Len(ew) - k) \o cw

\* MergeContinuation has merged with the partial-completion strategy
PartialCompletionMatched ==
    /\ Merged
    /\ TrimSpace(continuation) # ""
    /\ tryExactLineOverlap(existing, TrimSpace(continuation)) = ""
    /\ tryPartialCompletion(existing, TrimSpace(continuation)) # ""

\* the fragment line contLine is strictly longer than the trimmed last line of
\* the buffer and has it as a prefix
ExtendsLine(lastLine, contLine) ==
    Len(contLine) > Len(lastLine) /\ HasPrefix(contLine, lastLine)

\* the fragment line contLine begins with a word that strictly extends the
\* last word of the buffer, which has at least 3 characters
ExtendsLastWord(lastLine, contLine) ==
    /\ Fields(lastLine) # <<>>
    /\ Fields(contLine) # <<>>
    /\ Len(Fields(lastLine)[Len(Fields(lastLine))]) >= 3
    /\ Len(Fields(contLine)[1]) > Len(Fields(lastLine)[Len(Fields(lastLine))])
    /\ HasPrefix(Fields(contLine)[1], Fields(lastLine)[Len(Fields(lastLine))])

\* C24: the partial-completion strategy reports a match only when some line
\* of the fragment either (a) has the buffer's trimmed last line as a prefix
\* and is strictly longer, or (b) begins with a word that strictly extends the
\* buffer's last word, that word having at least 3 characters; on a match only
\* the last line of the buffer is dropped, and it is replaced by the fragment
\* starting at the matching line.
C24_PartialCompletionCases ==
    PartialCompletionMatched =>
      LET el   == Split(existing)
          cl   == Split(TrimSpace(continuation))
          last == TrimSpace(el[Len(el)])
      IN  \E i \in 1..Len(cl) :
            /\ \/ ExtendsLine(last, TrimSpace(cl[i]))
               \/ ExtendsLastWord(last, TrimSpace(cl[i]))
            /\ merged = Join(SubSeq(el, 1, Len(el) - 1) \o SubSeq(cl, i, Len(cl)), "\n")

-----------------------------------------------------------------------------
(* Properties of the structural checks *)

\* the character at position i is not escaped by a backslash before it
Unescaped(content, i) == i = 1 \/ Char(content, i - 1) # "\\"

\* one character of the bracket count outside string literals, where a string
\* literal opens at an unescaped quote character and closes at the next
\* unescaped occurrence of the same quote character
literalStep(content, i, st) ==
    LET r == Char(content, i)
    IN  IF ~st.inString /\ r \in {"\"", "'", Backtick} /\ Unescaped(content, i)
        THEN [st EXCEPT !.inString = TRUE, !.stringChar = r]
        ELSE IF st.inString /\ r = st.stringChar /\ Unescaped(content, i)
        THEN [st EXCEPT !.inString = FALSE]
        ELSE IF st.inString THEN st
        ELSE IF r = "{" THEN [st EXCEPT !.braceCount = @ + 1]
        ELSE IF r = "}" THEN [st EXCEPT !.braceCount = @ - 1]
        ELSE IF r = "(" THEN [st EXCEPT !.parenCount = @ + 1]
        ELSE IF r = ")" THEN [st EXCEPT !.parenCount = @ - 1]
        ELSE IF r = "[" THEN [st EXCEPT !.bracketCount = @ + 1]
        ELSE IF r = "]" THEN [st EXCEPT !.bracketCount = @ - 1]
        ELSE st

RECURSIVE literalScan(_, _, _)
literalScan(content, i, st) ==
    IF i > Len(content) THEN st
    ELSE literalScan(content, i + 1, literalStep(content, i, st))

\* the brackets outside string literals each net to zero
BracketsNetToZero(content) ==
    LET st == literalScan(content, 1,
                          [inString |-> FALSE, stringChar |-> "",
                           braceCount |-> 0, parenCount |-> 0, bracketCount |-> 0])
    IN  st.braceCount = 0 /\ st.parenCount = 0 /\ st.bracketCount = 0

\* C26: hasBalancedBraces(text) is true exactly when, counting only characters
\* outside string literals, '{' against '}', '(' against ')' and '[' against
\* ']' each net to zero, where a string literal opens at an unescaped quote
\* character (double quote, single quote or backtick) and closes at the next
\* unescaped occurrence of the same quote character.
C26_BalancedOutsideStringLiterals ==
    (Judged /\ oLanguage = "go") =>
        (hasBalancedBraces(oResponse) <=> BracketsNetToZero(oResponse))

\* the trimmed last non-empty line of a text ("" when every line is blank)
RECURSIVE LastNonEmptyLine(_)
LastNonEmptyLine(lines) ==
    IF lines = <<>> THEN ""
    ELSE IF TrimSpace(lines[Len(lines)]) # "" THEN TrimSpace(lines[Len(lines)])
    ELSE LastNonEmptyLine(SubSeq(lines, 1, Len(lines) - 1))

\* C27: for an indentation-delimited class (Python) the structural check
\* fails exactly when the last non-empty line of the text ends with ':', '\',
\* ',' or an open bracket, also when that line is followed by a trailing line
\* break or blank lines.
C27_PythonLastNonEmptyLine ==
    (Judged /\ oLanguage = "python") =>
        (~hasValidPythonStructure(oResponse)
           <=> \E ending \in {":", "\\", ",", "(", "[", "{"} :
                  HasSuffix(LastNonEmptyLine(Split(oResponse)), ending))

====
